---- MODULE Spec2Model ----
(***************************************************************************)
(* Model of compute_results_mscc.py: the pipeline                          *)
(*   main -> read_participants_file -> read_MSCC -> add_mJOA_to_df         *)
(*        -> gen_chart_corr_mjoa_mscc (compute_spearmans twice, logging).  *)
(* Strings that the code takes apart (file names, subject ids, exclusion   *)
(* entries) are sequences of one-character strings, so that split('_')     *)
(* and the substring test are computed; dictionary keys that are only      *)
(* looked up (disc labels) are atomic strings.                             *)
(***************************************************************************)
EXTENDS Integers, Sequences, FiniteSets, TLC

VARIABLES pc, err, dict_exclude_subj, df_participants, list_files, idx, df,
          subject, level, mscc, mscc_norm, mscc_df, has_mJOA, jdx,
          results, log

vars == <<pc, err, dict_exclude_subj, df_participants, list_files, idx, df,
          subject, level, mscc, mscc_norm, mscc_df, has_mJOA, jdx,
          results, log>>

(* ------------------------------ bounds --------------------------------- *)
MaxFiles == 3
MaxRows == 3

(* --------------------------- string helpers ---------------------------- *)
\* Python: sub in s
Contains(s, sub) ==
    \E k \in 0..(Len(s) - Len(sub)) : SubSeq(s, k + 1, k + Len(sub)) = sub

\* Python: s.split('_')[0]
SplitFirst(s) ==
    IF \E k \in 1..Len(s) : s[k] = "_"
    THEN LET k == CHOOSE i \in 1..Len(s) :
                      s[i] = "_" /\ \A j \in 1..(i - 1) : s[j] # "_"
         IN SubSeq(s, 1, k - 1)
    ELSE s

MARKER == <<"_", "m", "s", "c", "c">>

IsMsccFile(file) == Contains(file, MARKER)

Abs(x) == IF x < 0 THEN 0 - x ELSE x

\* variant: the last index of the minimum
ArgMinLast(seq) ==
    CHOOSE k \in 1..Len(seq) :
        /\ \A j \in 1..Len(seq) : seq[k] <= seq[j]
        /\ \A j \in (k + 1)..Len(seq) : seq[j] > seq[k]

\* numpy: first index of the minimum (1-based here), error on empty input
ArgMin(seq) ==
    CHOOSE k \in 1..Len(seq) :
        /\ \A j \in 1..Len(seq) : seq[k] <= seq[j]
        /\ \A j \in 1..(k - 1) : seq[j] > seq[k]

(* ------------------------------ constants ------------------------------ *)
\* variant: every disc label one level too high up the spine
DICT_DISC_LABELS_Shifted ==
    [l \in {"C2/C3", "C3/C4", "C4/C5", "C5/C6", "C6/C7"} |->
        CASE l = "C2/C3" -> 2
          [] l = "C3/C4" -> 3
          [] l = "C4/C5" -> 4
          [] l = "C5/C6" -> 5
          [] l = "C6/C7" -> 6]

DICT_DISC_LABELS ==
    [l \in {"C2/C3", "C3/C4", "C4/C5", "C5/C6", "C6/C7"} |->
        CASE l = "C2/C3" -> 3
          [] l = "C3/C4" -> 4
          [] l = "C4/C5" -> 5
          [] l = "C5/C6" -> 6
          [] l = "C6/C7" -> 7]

(* ------------------------------- inputs -------------------------------- *)
\* A cell of the participants' mjoa column: <<>> is an empty cell (NaN).
NaN == <<>>

SubA == <<"a">>
SubB == <<"b">>
FileA == <<"a", "_", "m", "s", "c", "c">>
FileA2 == <<"a", "_", "x", "_", "m", "s", "c", "c">>
FileB == <<"b", "_", "m", "s", "c", "c">>
FileBT1w == <<"b", "_", "T", "1", "w">>

FileNames == {FileA, FileA2, FileB, FileBT1w}

RECURSIVE Perms(_)
Perms(S) ==
    IF S = {} THEN {<<>>}
    ELSE UNION {{<<x>> \o p : p \in Perms(S \ {x})} : x \in S}

\* os.listdir: the names of a directory, each once, in arbitrary order
Listings ==
    UNION {Perms(S) : S \in {T \in SUBSET FileNames : Cardinality(T) <= MaxFiles}}

\* yaml list of entries to exclude: subject ids or file names
ExcludeLists == SUBSET {SubA, FileBT1w}

\* A measurement table: row k carries values that identify the row.
MkTable(levels) ==
    [k \in 1..Len(levels) |->
        [level |-> levels[k], MSCC |-> 10 * k + levels[k], MSCC_norm |-> 100 + k]]

LevelSeqs(n) == UNION {[1..m -> 2..8] : m \in 0..n}

AllTables == {MkTable(ls) : ls \in LevelSeqs(MaxRows)}

PipelineTables == {MkTable(<<>>), MkTable(<<4, 5>>), MkTable(<<7, 3>>)}

ParticipantRows(id) ==
    {<<>>} \cup
    {<<[participant_id |-> id, max_compression_level |-> l, mjoa |-> m]>> :
        l \in {"C4/C5", "C7/T1"}, m \in {NaN, <<14>>, <<16>>}}

\* participants.tsv: at most one row per participant_id
ParticipantTables == {a \o b : a \in ParticipantRows(SubA), b \in ParticipantRows(SubB)}

Column(table, name) == [k \in 1..Len(table) |-> table[k][name]]

(* ------------------------------- Init ---------------------------------- *)
Init ==
    /\ pc = "main"
    /\ err = "none"
    /\ dict_exclude_subj = {}
    /\ df_participants = <<>>
    /\ list_files = <<>>
    /\ idx = 0
    /\ df = <<>>
    /\ subject = <<>>
    /\ level = <<>>
    /\ mscc = <<>>
    /\ mscc_norm = <<>>
    /\ mscc_df = <<>>
    /\ has_mJOA = FALSE
    /\ jdx = 0
    /\ results = <<>>
    /\ log = <<>>

(* ------------------------------ main ----------------------------------- *)
\* main lines 198-213: load the exclusion list
LoadExclude ==
    /\ pc = "main" /\ err = "none"
    /\ \/ \* no -exclude flag, or the yaml file parsed
          /\ \E e \in ExcludeLists : dict_exclude_subj' = e
          /\ pc' = "read_participants"
          /\ err' = err
       \/ \* -exclude names a file that does not exist: sys.exit
          /\ err' = "SystemExit"
          /\ UNCHANGED <<pc, dict_exclude_subj>>
       \/ \* yaml.YAMLError is logged; dict_exclude_subj stays unbound
          /\ err' = "UnboundLocalError"
          /\ UNCHANGED <<pc, dict_exclude_subj>>
    /\ UNCHANGED <<df_participants, list_files, idx, df, subject, level, mscc,
                   mscc_norm, mscc_df, has_mJOA, jdx, results, log>>

\* read_participants_file, called from main line 214
ReadParticipants ==
    /\ pc = "read_participants" /\ err = "none"
    /\ \/ /\ \E p \in ParticipantTables : df_participants' = p
          /\ pc' = "listdir"
          /\ err' = err
       \/ /\ err' = "FileNotFoundError"
          /\ UNCHANGED <<pc, df_participants>>
    /\ UNCHANGED <<dict_exclude_subj, list_files, idx, df, subject, level, mscc,
                   mscc_norm, mscc_df, has_mJOA, jdx, results, log>>

(* ----------------------------- read_MSCC ------------------------------- *)
\* read_MSCC lines 94-100: list the folder, start with empty result lists
ReadMSCC_Begin ==
    /\ pc = "listdir" /\ err = "none"
    /\ \E l \in Listings : list_files' = l
    /\ idx' = 0
    /\ subject' = <<>> /\ level' = <<>> /\ mscc' = <<>> /\ mscc_norm' = <<>>
    /\ pc' = "read_MSCC"
    /\ UNCHANGED <<err, dict_exclude_subj, df_participants, df, mscc_df,
                   has_mJOA, jdx, results, log>>

\* line 111: df_participants.loc[participant_id == sub_id, col].to_list()
ParticipantCells(participants, sub_id, col) ==
    Column(SelectSeq(participants, LAMBDA r : r.participant_id = sub_id), col)

\* df.index[df['Compression Level'] == lv].tolist()
IndexOfLevel(table, lv) ==
    SelectSeq([k \in 1..Len(table) |-> k], LAMBDA k : table[k].level = lv)

\* variant: the lowest of the levels nearest to max_level
NearestLevelLowest(table, max_level) ==
    LET levels == Column(table, "level")
        dist == [k \in 1..Len(levels) |-> Abs(levels[k] - max_level)]
    IN CHOOSE l \in {levels[k] : k \in 1..Len(levels)} :
           \A k \in 1..Len(levels) :
               \/ Abs(l - max_level) < dist[k]
               \/ (Abs(l - max_level) = dist[k] /\ l <= levels[k])

\* line 115: the level at the argmin of |level - max_level|, in table order
NearestLevel(table, max_level) ==
    LET levels == Column(table, "level")
    IN levels[ArgMin([k \in 1..Len(levels) |-> Abs(levels[k] - max_level)])]

\* variant: the last of the matching rows is kept
IdxMaxLast(table, max_level) ==
    LET exact == IndexOfLevel(table, max_level)
        near == IndexOfLevel(table, NearestLevel(table, max_level))
    IN IF exact # <<>> THEN exact[Len(exact)] ELSE near[Len(near)]

\* lines 113-117: the index of the row that is kept
IdxMax(table, max_level) ==
    IF IndexOfLevel(table, max_level) # <<>>
    THEN IndexOfLevel(table, max_level)[1]
    ELSE IndexOfLevel(table, NearestLevel(table, max_level))[1]

\* read_MSCC lines 101-122: one iteration of the loop over the folder
ReadMSCC_File(Tables) ==
    /\ pc = "read_MSCC" /\ err = "none"
    /\ idx < Len(list_files)
    /\ idx' = idx + 1
    /\ LET file == list_files[idx + 1]
           sub_id == SplitFirst(file)
       IN IF ~IsMsccFile(file) \/ sub_id \in dict_exclude_subj
          THEN UNCHANGED <<err, df, subject, level, mscc, mscc_norm>>
          ELSE \E table \in Tables :
               /\ df' = table
               /\ LET labels == ParticipantCells(df_participants, sub_id,
                                                 "max_compression_level")
                  IN IF labels = <<>>
                     THEN /\ err' = "IndexError"
                          /\ UNCHANGED <<subject, level, mscc, mscc_norm>>
                     ELSE IF labels[1] \notin DOMAIN DICT_DISC_LABELS
                     THEN /\ err' = "KeyError"
                          /\ UNCHANGED <<subject, level, mscc, mscc_norm>>
                     ELSE IF table = <<>>
                     THEN /\ err' = "ValueError"
                          /\ UNCHANGED <<subject, level, mscc, mscc_norm>>
                     ELSE LET idx_max == IdxMax(table, DICT_DISC_LABELS[labels[1]])
                          IN /\ subject' = Append(subject, sub_id)
                             /\ level' = Append(level, table[idx_max].level)
                             /\ mscc' = Append(mscc, table[idx_max].MSCC)
                             /\ mscc_norm' = Append(mscc_norm, table[idx_max].MSCC_norm)
                             /\ err' = err
    /\ UNCHANGED <<pc, dict_exclude_subj, df_participants, list_files, mscc_df,
                   has_mJOA, jdx, results, log>>

\* read_MSCC lines 123-127: build and return the consolidated table
ReadMSCC_Return ==
    /\ pc = "read_MSCC" /\ err = "none"
    /\ idx = Len(list_files)
    /\ mscc_df' = [k \in 1..Len(subject) |->
                      [subject |-> subject[k], level |-> level[k],
                       MSCC |-> mscc[k], MSCC_norm |-> mscc_norm[k],
                       mJOA |-> NaN]]
    /\ has_mJOA' = FALSE
    /\ jdx' = 0
    /\ pc' = "add_mJOA"
    /\ UNCHANGED <<err, dict_exclude_subj, df_participants, list_files, idx, df,
                   subject, level, mscc, mscc_norm, results, log>>

(* --------------------------- add_mJOA_to_df ---------------------------- *)
\* the rows selected by mscc_df['subject'] == subj, in table order
RowsOfSubject(table, subj) ==
    SelectSeq([k \in 1..Len(table) |-> k], LAMBDA k : table[k].subject = subj)

\* mscc_df.loc[rows, 'mJOA'] = values, values[n] going to the n-th selected row
SetMJOA(table, rows, values) ==
    [k \in 1..Len(table) |->
        IF \E n \in 1..Len(rows) : rows[n] = k
        THEN [table[k] EXCEPT
                 !.mJOA = values[CHOOSE n \in 1..Len(rows) : rows[n] = k]]
        ELSE table[k]]

\* add_mJOA_to_df line 177-178: one iteration of the loop over the subjects
AddMJOA_Row ==
    /\ pc = "add_mJOA" /\ err = "none"
    /\ jdx < Len(mscc_df)
    /\ jdx' = jdx + 1
    /\ LET subj == mscc_df[jdx + 1].subject
           rows == RowsOfSubject(mscc_df, subj)
           values == ParticipantCells(df_participants, subj, "mjoa")
       IN IF Len(values) = Len(rows)
          THEN /\ mscc_df' = SetMJOA(mscc_df, rows, values)
               /\ has_mJOA' = TRUE
               /\ err' = err
          ELSE IF Len(values) = 1
          THEN \* one value for several rows: pandas either refuses the
               \* assignment or sets every selected row to the value
               \/ /\ err' = "ValueError"
                  /\ UNCHANGED <<mscc_df, has_mJOA>>
               \/ /\ mscc_df' = SetMJOA(mscc_df, rows, [n \in 1..Len(rows) |-> values[1]])
                  /\ has_mJOA' = TRUE
                  /\ err' = err
          ELSE /\ err' = "ValueError"
               /\ UNCHANGED <<mscc_df, has_mJOA>>
    /\ UNCHANGED <<pc, dict_exclude_subj, df_participants, list_files, idx, df,
                   subject, level, mscc, mscc_norm, results, log>>

\* add_mJOA_to_df line 179 and main line 218
AddMJOA_Return ==
    /\ pc = "add_mJOA" /\ err = "none"
    /\ jdx = Len(mscc_df)
    /\ pc' = "gen_chart"
    /\ UNCHANGED <<err, dict_exclude_subj, df_participants, list_files, idx, df,
                   subject, level, mscc, mscc_norm, mscc_df, has_mJOA, jdx,
                   results, log>>

(* ---------------------- gen_chart_corr_mjoa_mscc ----------------------- *)
IsConstant(a) == \A i, j \in 1..Len(a) : a[i] = a[j]

\* compute_spearmans: scipy's spearmanr gives nan for fewer than two
\* observations, for a NaN among the values and for a constant input
compute_spearmans(a, b) ==
    IF Len(a) <= 1 THEN "nan"
    ELSE IF \E k \in 1..Len(a) : a[k] = NaN THEN "nan"
    ELSE IF IsConstant(a) \/ IsConstant(b) THEN "nan"
    ELSE "finite"

\* lines 152-154: read the three columns
GenChart_Columns ==
    /\ pc = "gen_chart" /\ err = "none"
    /\ IF has_mJOA
       THEN pc' = "spearman_mscc" /\ err' = err
       ELSE err' = "KeyError" /\ pc' = pc
    /\ UNCHANGED <<dict_exclude_subj, df_participants, list_files, idx, df,
                   subject, level, mscc, mscc_norm, mscc_df, has_mJOA, jdx,
                   results, log>>

\* one call of compute_spearmans on the mJOA column and column col
Spearman(col) ==
    [y |-> col, a |-> Column(mscc_df, "mJOA"), b |-> Column(mscc_df, col),
     r |-> compute_spearmans(Column(mscc_df, "mJOA"), Column(mscc_df, col))]

\* line 156
GenChart_SpearmanMSCC ==
    /\ pc = "spearman_mscc" /\ err = "none"
    /\ results' = Append(results, Spearman("MSCC"))
    /\ pc' = "spearman_mscc_norm"
    /\ UNCHANGED <<err, dict_exclude_subj, df_participants, list_files, idx, df,
                   subject, level, mscc, mscc_norm, mscc_df, has_mJOA, jdx, log>>

\* variant: the second correlation is computed on the MSCC column again
GenChart_SpearmanSameColumn ==
    /\ pc = "spearman_mscc_norm" /\ err = "none"
    /\ results' = Append(results, Spearman("MSCC"))
    /\ pc' = "log"
    /\ UNCHANGED <<err, dict_exclude_subj, df_participants, list_files, idx, df,
                   subject, level, mscc, mscc_norm, mscc_df, has_mJOA, jdx, log>>

\* line 157
GenChart_SpearmanNorm ==
    /\ pc = "spearman_mscc_norm" /\ err = "none"
    /\ results' = Append(results, Spearman("MSCC_norm"))
    /\ pc' = "log"
    /\ UNCHANGED <<err, dict_exclude_subj, df_participants, list_files, idx, df,
                   subject, level, mscc, mscc_norm, mscc_df, has_mJOA, jdx, log>>

\* lines 159-160: both results are logged; the chart is drawn afterwards
GenChart_Log ==
    /\ pc = "log" /\ err = "none"
    /\ log' = log \o results
    /\ pc' = "done"
    /\ UNCHANGED <<err, dict_exclude_subj, df_participants, list_files, idx, df,
                   subject, level, mscc, mscc_norm, mscc_df, has_mJOA, jdx,
                   results>>

(* --------------------------- specifications ---------------------------- *)
Next ==
    \/ LoadExclude
    \/ ReadParticipants
    \/ ReadMSCC_Begin
    \/ ReadMSCC_File(PipelineTables)
    \/ ReadMSCC_Return
    \/ AddMJOA_Row
    \/ AddMJOA_Return
    \/ GenChart_Columns
    \/ GenChart_SpearmanMSCC
    \/ GenChart_SpearmanNorm
    \/ GenChart_Log

Spec == Init /\ [][Next]_vars

\* read_MSCC on one measurement file, over every table up to MaxRows rows
\* and every label of DICT_DISC_LABELS
InitResolve ==
    /\ pc = "read_MSCC"
    /\ err = "none"
    /\ dict_exclude_subj = {}
    /\ \E l \in DOMAIN DICT_DISC_LABELS :
          df_participants =
              <<[participant_id |-> SubA, max_compression_level |-> l, mjoa |-> <<14>>]>>
    /\ list_files = <<FileA>>
    /\ idx = 0
    /\ df = <<>>
    /\ subject = <<>>
    /\ level = <<>>
    /\ mscc = <<>>
    /\ mscc_norm = <<>>
    /\ mscc_df = <<>>
    /\ has_mJOA = FALSE
    /\ jdx = 0
    /\ results = <<>>
    /\ log = <<>>

NextResolve ==
    \/ ReadMSCC_File(AllTables)
    \/ ReadMSCC_Return

SpecResolve == InitResolve /\ [][NextResolve]_vars

TypeOK ==
    /\ pc \in {"main", "read_participants", "listdir", "read_MSCC", "add_mJOA",
               "gen_chart", "spearman_mscc", "spearman_mscc_norm", "log", "done"}
    /\ idx \in 0..Len(list_files)
    /\ jdx \in 0..Len(mscc_df)

(* ============================== properties ============================= *)
\* the label map as the specification states it: C2/C3..C6/C7 -> 3..7
LevelLabelMap ==
    ("C2/C3" :> 3) @@ ("C3/C4" :> 4) @@ ("C4/C5" :> 5) @@ ("C5/C6" :> 6) @@
    ("C6/C7" :> 7)

\* the last loop iteration of read_MSCC appended a row taken from df
Emitted ==
    /\ pc = "read_MSCC" /\ err = "none" /\ idx >= 1
    /\ IsMsccFile(list_files[idx])
    /\ SplitFirst(list_files[idx]) \notin dict_exclude_subj

\* the target label of the subject of the last iteration
TargetLabel ==
    LET sub_id == SplitFirst(list_files[idx])
        k == CHOOSE i \in 1..Len(df_participants) :
                 df_participants[i].participant_id = sub_id
    IN df_participants[k].max_compression_level

TargetOrdinal == LevelLabelMap[TargetLabel]

AvailableOrdinals == {df[k].level : k \in 1..Len(df)}

Chosen == level[Len(level)]

FirstPos(lv) ==
    CHOOSE k \in 1..Len(df) :
        df[k].level = lv /\ \A j \in 1..(k - 1) : df[j].level # lv

\* the target ordinal is absent from the table and a nearest level was taken
Fallback == Emitted /\ TargetOrdinal \notin AvailableOrdinals

MinimalDistance ==
    /\ Chosen \in AvailableOrdinals
    /\ \A l \in AvailableOrdinals :
          Abs(Chosen - TargetOrdinal) <= Abs(l - TargetOrdinal)

Tied(l) == l # Chosen /\ Abs(l - TargetOrdinal) = Abs(Chosen - TargetOrdinal)

\* C1: when the table of the subject contains the ordinal the label map gives
\* for the subject's label, the level selected is exactly that ordinal.
C1_ExactMatch ==
    (Emitted /\ TargetOrdinal \in AvailableOrdinals) => Chosen = TargetOrdinal

C1_Witness ==
    /\ Emitted /\ TargetOrdinal \in AvailableOrdinals
    /\ Len(df) >= 2 /\ df[1].level # TargetOrdinal
    /\ Chosen = TargetOrdinal

\* C2 as stated: in the fallback the selected level is an available ordinal at
\* minimum distance from the target, and of two equidistant ordinals the lower
\* one is selected, whatever the row order.
C2_LowerWins ==
    Fallback => (MinimalDistance /\ \A l \in AvailableOrdinals : Tied(l) => Chosen < l)

\* C2 amended: in the fallback the selected level is an available ordinal at
\* minimum distance from the target, and of two equidistant ordinals the one
\* whose row comes first in the table is selected.
C2_NearestFirstInTable ==
    Fallback =>
        /\ MinimalDistance
        /\ \A l \in AvailableOrdinals :
              Tied(l) => FirstPos(Chosen) < FirstPos(l)

C2_Witness ==
    /\ Fallback
    /\ \E l \in AvailableOrdinals : Tied(l) /\ Chosen < l

\* C5: the level, MSCC and MSCC_norm emitted for a subject are those of one row
\* of the subject's own table, the first row in table order whose level is
\* the emitted level.
C5_RowCoherence ==
    Emitted =>
        /\ Chosen \in AvailableOrdinals
        /\ mscc[Len(mscc)] = df[FirstPos(Chosen)].MSCC
        /\ mscc_norm[Len(mscc_norm)] = df[FirstPos(Chosen)].MSCC_norm
        /\ Len(subject) = Len(level) /\ Len(level) = Len(mscc)
        /\ Len(mscc) = Len(mscc_norm)

C5_Witness ==
    /\ Fallback
    /\ \E i, j \in 1..Len(df) : i < j /\ df[i].level = Chosen /\ df[j].level = Chosen
    /\ FirstPos(Chosen) > 1

\* C10: in the fallback the level selected is the level of the first row, in
\* table order, whose distance to the target is minimal over the table; of
\* equidistant levels the earlier row wins, be it the lower or the higher.
C10_FirstMinimalRow ==
    Fallback =>
        LET dist == [k \in 1..Len(df) |-> Abs(df[k].level - TargetOrdinal)]
            first == CHOOSE k \in 1..Len(df) :
                        /\ \A j \in 1..Len(df) : dist[k] <= dist[j]
                        /\ \A j \in 1..(k - 1) : dist[j] # dist[k]
        IN Chosen = df[first].level

C10_Witness ==
    /\ Fallback
    /\ \E l \in AvailableOrdinals : Tied(l) /\ l < Chosen

(* ------------------------------ pipeline ------------------------------- *)
AfterReduce ==
    pc \in {"add_mJOA", "gen_chart", "spearman_mscc", "spearman_mscc_norm",
            "log", "done"}

AfterJoin ==
    pc \in {"gen_chart", "spearman_mscc", "spearman_mscc_norm", "log", "done"}

\* the subject ids of the measurement files, in discovery order
Discovered ==
    LET files == SelectSeq(list_files, IsMsccFile)
    IN [k \in 1..Len(files) |-> SplitFirst(files[k])]

\* the exclusion list holds the id, or a file name the id is derived from
Excluded(sub_id) ==
    \E e \in dict_exclude_subj : e = sub_id \/ SplitFirst(e) = sub_id

NotExcluded(sub_id) == ~Excluded(sub_id)

\* C3: the subjects of the consolidated table are the discovered subjects with
\* exactly the excluded ones removed, in the same relative order.
C3_ExclusionExact ==
    AfterReduce => Column(mscc_df, "subject") = SelectSeq(Discovered, NotExcluded)

\* C4: no subject id is in more than one row of the consolidated table.
C4_OneRowPerSubject ==
    \A i, j \in 1..Len(mscc_df) :
        i # j => mscc_df[i].subject # mscc_df[j].subject

\* C6: a subject whose reduction fails is left out and the run goes on: a
\* failure in read_MSCC leaves no measurement file of a subject that is not
\* excluded unvisited, and no subject reduced before it without its row in
\* the consolidated table.
C6_ErrorIsolation ==
    (pc = "read_MSCC" /\ err \in {"IndexError", "KeyError", "ValueError"}) =>
        /\ \A k \in (idx + 1)..Len(list_files) :
              ~IsMsccFile(list_files[k])
              \/ SplitFirst(list_files[k]) \in dict_exclude_subj
        /\ Column(mscc_df, "subject") = subject

\* C7: once the join has completed, every consolidated row carries a set
\* outcome score.
C7_OutcomeSet ==
    AfterJoin => \A k \in 1..Len(mscc_df) : mscc_df[k].mJOA # NaN

\* C8: with fewer than two consolidated rows no correlation is computed or
\* logged and the run does not complete.
C8_InsufficientData ==
    (AfterJoin /\ Len(mscc_df) < 2) =>
        (results = <<>> /\ log = <<>> /\ pc # "done")

StageRank(p) ==
    CASE p = "main" -> 0
      [] p = "read_participants" -> 1
      [] p \in {"listdir", "read_MSCC"} -> 2
      [] p = "add_mJOA" -> 3
      [] OTHER -> 4

Measurements(table) ==
    [k \in 1..Len(table) |->
        <<table[k].subject, table[k].level, table[k].MSCC, table[k].MSCC_norm>>]

\* C9: the stages run in the order load, reduce, join, correlate, one after
\* the other; a correlation is computed only once the join has visited every
\* row; a completed run has computed exactly two, the outcome column first
\* against MSCC and then against MSCC_norm, over all rows, and has logged
\* both; after read_MSCC has returned the consolidated table keeps its rows
\* and their level, MSCC and MSCC_norm.
C9_StageOrdering ==
    /\ [][/\ StageRank(pc') \in {StageRank(pc), StageRank(pc) + 1}
          /\ AfterReduce => Measurements(mscc_df') = Measurements(mscc_df)
          /\ results' # results => (AfterJoin /\ jdx = Len(mscc_df) /\ has_mJOA)]_vars
    /\ [](results # <<>> => (AfterJoin /\ jdx = Len(mscc_df)))
    /\ [](pc = "done" =>
            /\ Len(results) = 2
            /\ results[1].y = "MSCC" /\ results[2].y = "MSCC_norm"
            /\ results[1].a = Column(mscc_df, "mJOA")
            /\ results[2].a = Column(mscc_df, "mJOA")
            /\ results[1].b = Column(mscc_df, "MSCC")
            /\ results[2].b = Column(mscc_df, "MSCC_norm")
            /\ log = results)

C9_Witness ==
    /\ pc = "done" /\ Len(mscc_df) >= 2
    /\ Len(results) = 2 /\ results[2].r = "finite"

====
